---- MODULE Spec2Model ----
(***************************************************************************)
(* hal_microkernel_bridge.c: the HAL component that bridges LinuxCNC HAL   *)
(* pins and the shared memory region of the AILang microkernel.            *)
(*                                                                         *)
(* The bridge process runs rtapi_app_main once, then the realtime thread   *)
(* invokes update_pins once per servo period, then rtapi_app_exit runs.    *)
(* The microkernel (the peer) is another process: it creates the region    *)
(* file and stores to its words at any moment, also between two memory     *)
(* accesses of one update_pins invocation.  update_pins is therefore       *)
(* modelled one shared-memory access per step.                             *)
(*                                                                         *)
(* TLC integers are 32 bits wide, so a 64-bit word is four 16-bit limbs    *)
(* <<w3, w2, w1, w0>> (w3 most significant), a double is its IEEE-754      *)
(* fields, and a 32-bit HAL counter is two 16-bit limbs.                   *)
(***************************************************************************)
EXTENDS Integers, Sequences, FiniteSets, TLC

(* ------------------------------------------------------------------ *)
(* Program constants                                                  *)
(* ------------------------------------------------------------------ *)
MAX_PINS == 16

SHARED_MEM_SIZE == 4096

\* sizeof(int64_t): shm_ptr is an int64_t *, indexed in 8-byte words
WORD_BYTES == 8

RegionWords == SHARED_MEM_SIZE \div WORD_BYTES

Pins == 0 .. (MAX_PINS - 1)

Slots == 0 .. (RegionWords - 1)

(* ------------------------------------------------------------------ *)
(* Bounds of the model                                                *)
(* ------------------------------------------------------------------ *)
\* update_pins invocations the scheduler makes in one run
MaxCycles == 2

\* pins whose inbound endpoint HAL drives and whose slot the peer stores to
NActive == 2

\* the last pin and the first NActive-1 pins
ActivePins == {p \in Pins : p < NActive - 1 \/ p = MAX_PINS - 1}

(* ------------------------------------------------------------------ *)
(* Values                                                             *)
(* ------------------------------------------------------------------ *)
Limb == 2 ^ 16

\* hal_float_t is a double: sign, 11-bit exponent, 52-bit fraction held
\* as <<f3, f2, f1, f0>> with f3 the top 4 bits and three 16-bit limbs
PosZero == [sign |-> 0, exp |-> 0, frac |-> <<0, 0, 0, 0>>]

NegZero == [sign |-> 1, exp |-> 0, frac |-> <<0, 0, 0, 0>>]

MinSubnormal == [sign |-> 0, exp |-> 0, frac |-> <<0, 0, 0, 1>>]

NegNaN == [sign |-> 1, exp |-> 2047, frac |-> <<8, 0, 0, 1>>]

\* the doubles that travel through pin p, driven by HAL on its inbound
\* endpoint or stored by the peer in its slot: +0.0 and one more pattern
PinFloats(p) ==
    IF p = MAX_PINS - 1 THEN {PosZero, NegNaN}
    ELSE IF p = 0 THEN {PosZero, MinSubnormal}
    ELSE {PosZero, NegZero}

\* an int64_t constant 0 <= n < 2^16
I64(n) == <<0, 0, 0, n>>

\* the numeric conversion (int64_t)value in place of the union: zeros and
\* subnormals give 0, a NaN gives the integer indefinite 0x8000000000000000
FloatToWord_cast(f) ==
    IF f.exp = 2047 THEN <<32768, 0, 0, 0>>
    ELSE IF f.exp = 0 THEN <<0, 0, 0, 0>>
    ELSE <<f.sign * 32768 + f.exp * 16 + f.frac[1], f.frac[2], f.frac[3], f.frac[4]>>

\* union { hal_float_t f; int64_t i; } convert: store .f, load .i
FloatToWord(f) ==
    <<f.sign * 32768 + f.exp * 16 + f.frac[1], f.frac[2], f.frac[3], f.frac[4]>>

\* union { hal_float_t f; int64_t i; } convert: store .i, load .f
WordToFloat(w) ==
    [sign |-> w[1] \div 32768,
     exp  |-> (w[1] % 32768) \div 16,
     frac |-> <<w[1] % 16, w[2], w[3], w[4]>>]

\* the words the peer stores: the pin count to slot 0, 0 or 1 to the flag,
\* the image of a double to a pin's slot
PeerWords(s) ==
    IF s = 0 THEN {I64(MAX_PINS)}
    ELSE IF s = 1 THEN {I64(0), I64(1)}
    ELSE {FloatToWord(f) : f \in PinFloats(s - 2)}

\* the slots the peer stores to: pin count, flag, the active pins' slots
PeerSlots == {0, 1} \cup {2 + p : p \in ActivePins}

\* The region is RegionWords words.  The file is created zero-filled, and
\* the state holds only its non-zero words: Load reads word s of region m,
\* Store gives the region after word s is set to w.
Load(m, s) == IF s \in DOMAIN m THEN m[s] ELSE I64(0)

Store(m, s, w) ==
    LET dom == IF w = I64(0) THEN DOMAIN m \ {s} ELSE DOMAIN m \cup {s}
    IN  [t \in dom |-> IF t = s THEN w ELSE m[t]]

\* hal_u32_t as <<hi, lo>>, 16-bit limbs
U32Zero == <<0, 0>>

\* a counter that stops at 0xFFFFFFFF instead of wrapping
Inc32_saturating(c) ==
    IF c = <<Limb - 1, Limb - 1>> THEN c
    ELSE IF c[2] = Limb - 1 THEN <<c[1] + 1, 0>>
    ELSE <<c[1], c[2] + 1>>

\* *(counter) += 1 on a hal_u32_t: wraps at 2^32
Inc32(c) ==
    IF c[2] = Limb - 1
    THEN <<(c[1] + 1) % Limb, 0>>
    ELSE <<c[1], c[2] + 1>>

(* ------------------------------------------------------------------ *)
(* State                                                              *)
(* ------------------------------------------------------------------ *)
VARIABLES
    phase,         \* "unloaded", "failed", "ready", "exited"
    main_ret,      \* return value of rtapi_app_main, "none" before it ran
    comp_live,     \* hal_init succeeded and hal_exit has not been called
    shm_ptr,       \* "NULL" or "MAPPED"
    shm_fd,        \* -1 or the descriptor
    open_fds,      \* descriptors the process holds open
    sys,           \* system calls made so far: open, mmap, munmap, close
    acq,           \* outcome of map_shared_memory: "none","ok","enoent","eacces","mmap"
    file_exists,   \* the peer has created /tmp/hal_pins.shm
    shm,           \* the non-zero words of the region file, by slot
    pin_in,        \* *(hal_data->pin_in[p])
    pin_out,       \* *(hal_data->pin_out[p])
    connected,     \* *(hal_data->connected)
    update_count,  \* *(hal_data->update_count)
    error_count,   \* *(hal_data->error_count)
    pc,            \* position inside update_pins: "idle","inbound","outbound","flag","count"
    i,             \* update_pins' loop variable
    log,           \* shared-memory accesses of the current or last invocation
    entry,         \* the two counters when the invocation started
    ncycles,       \* update_pins invocations started in this run
    start,         \* update_pins invocations made before this run, mod 2^32
    peer_touched   \* slots the peer stored to after the bridge wrote them
                   \* and before it read them back, in this invocation

vars == <<phase, main_ret, comp_live, shm_ptr, shm_fd, open_fds, sys, acq,
          file_exists, shm, pin_in, pin_out, connected, update_count,
          error_count, pc, i, log, entry, ncycles, start, peer_touched>>

connVars == <<shm_ptr, shm_fd, open_fds, sys, acq>>

lifeVars == <<phase, main_ret, comp_live, start>>

cycleVars == <<pc, i, log, entry, ncycles>>

\* the descriptor open() returns: 0, 1, 2 are taken
FirstFd == 3

\* static volatile int64_t *shm_ptr = NULL; static int shm_fd = -1;
Conn0 == [shm_ptr |-> "NULL", shm_fd |-> -1, open_fds |-> {},
          sys |-> [open |-> 0, mmap |-> 0, munmap |-> 0, close |-> 0]]

Init ==
    /\ phase = "unloaded"
    /\ main_ret = "none"
    /\ comp_live = FALSE
    /\ shm_ptr = Conn0.shm_ptr
    /\ shm_fd = Conn0.shm_fd
    /\ open_fds = Conn0.open_fds
    /\ sys = Conn0.sys
    /\ acq = "none"
    /\ file_exists = FALSE
    /\ shm = [s \in {} |-> I64(0)]
    /\ pin_in = [p \in Pins |-> PosZero]
    /\ pin_out = [p \in Pins |-> PosZero]
    /\ connected = 0
    /\ update_count = U32Zero
    /\ error_count = U32Zero
    /\ pc = "idle"
    /\ i = 0
    /\ log = <<>>
    /\ entry = [update_count |-> U32Zero, error_count |-> U32Zero]
    /\ ncycles = 0
    /\ start = U32Zero
    /\ peer_touched = {}

(* ------------------------------------------------------------------ *)
(* Connection: map_shared_memory, unmap_shared_memory                 *)
(* A connection value c is [shm_ptr, shm_fd, open_fds, sys].          *)
(* ------------------------------------------------------------------ *)
Bump(c, call) == [c.sys EXCEPT ![call] = @ + 1]

\* map_shared_memory returning -1 on a failed mmap() without the cleanup
map_shared_memory_leaks(c, opened, mapped_ok) ==
    IF ~opened
    THEN [conn |-> [c EXCEPT !.shm_fd = -1, !.sys = Bump(c, "open")],
          ret  |-> -1]
    ELSE LET c1 == [c EXCEPT !.shm_fd = FirstFd,
                             !.open_fds = @ \cup {FirstFd},
                             !.sys = Bump(c, "open")]
             c2 == [c1 EXCEPT !.sys = Bump(c1, "mmap")]
         IN  IF ~mapped_ok
             THEN [conn |-> [c2 EXCEPT !.shm_ptr = "MAP_FAILED"], ret |-> -1]
             ELSE [conn |-> [c2 EXCEPT !.shm_ptr = "MAPPED"], ret |-> 0]

\* map_shared_memory(): opened says whether open() succeeds, mapped_ok
\* whether mmap() does.  The result is the connection and the return value.
map_shared_memory(c, opened, mapped_ok) ==
    IF ~opened
    THEN \* shm_fd = open(...) < 0: return -1
         [conn |-> [c EXCEPT !.shm_fd = -1, !.sys = Bump(c, "open")],
          ret  |-> -1]
    ELSE LET c1 == [c EXCEPT !.shm_fd = FirstFd,
                             !.open_fds = @ \cup {FirstFd},
                             !.sys = Bump(c, "open")]
             c2 == [c1 EXCEPT !.sys = Bump(c1, "mmap")]
         IN  IF ~mapped_ok
             THEN \* shm_ptr == MAP_FAILED: close(shm_fd), forget both
                  [conn |-> [c2 EXCEPT !.open_fds = @ \ {c2.shm_fd},
                                       !.sys = Bump(c2, "close"),
                                       !.shm_fd = -1,
                                       !.shm_ptr = "NULL"],
                   ret  |-> -1]
             ELSE [conn |-> [c2 EXCEPT !.shm_ptr = "MAPPED"],
                   ret  |-> 0]

\* unmap_shared_memory without the two tests: munmap() and close() always
unmap_shared_memory_untested(c) ==
    [c EXCEPT !.shm_ptr = "NULL",
              !.open_fds = @ \ {c.shm_fd},
              !.sys = [@ EXCEPT !["munmap"] = @ + 1, !["close"] = @ + 1],
              !.shm_fd = -1]

\* unmap_shared_memory() that unmaps the region and keeps the descriptor
unmap_shared_memory_keeps_fd(c) ==
    IF c.shm_ptr # "NULL"
    THEN [c EXCEPT !.shm_ptr = "NULL", !.sys = Bump(c, "munmap")]
    ELSE c

\* unmap_shared_memory()
unmap_shared_memory(c) ==
    LET c1 == IF c.shm_ptr # "NULL"
              THEN [c EXCEPT !.shm_ptr = "NULL", !.sys = Bump(c, "munmap")]
              ELSE c
    IN  IF c1.shm_fd >= 0
        THEN [c1 EXCEPT !.open_fds = @ \ {c1.shm_fd},
                        !.sys = Bump(c1, "close"),
                        !.shm_fd = -1]
        ELSE c1

CurConn == [shm_ptr |-> shm_ptr, shm_fd |-> shm_fd, open_fds |-> open_fds,
            sys |-> sys]

SetConn(c) ==
    /\ shm_ptr' = c.shm_ptr
    /\ shm_fd' = c.shm_fd
    /\ open_fds' = c.open_fds
    /\ sys' = c.sys

(* ------------------------------------------------------------------ *)
(* rtapi_app_main                                                     *)
(* ------------------------------------------------------------------ *)
\* the HAL call that fails, "none" when every call succeeds
FailPoints == {"none", "hal_init", "hal_malloc", "pin_in", "pin_out",
               "connected", "update_count", "error_count", "export"}

\* the negative errno values a failing HAL call returns (-EINVAL, -ENOMEM)
HalErrs == {-22, -12}

\* the failures that return before map_shared_memory() is reached
BeforeMap == {"hal_init", "hal_malloc", "pin_in", "pin_out", "connected",
              "update_count", "error_count"}

\* why open() failed or what the acquisition ended in
AcqOutcome(exists, perm, mapped_ok) ==
    IF ~exists THEN "enoent"
    ELSE IF ~perm THEN "eacces"
    ELSE IF ~mapped_ok THEN "mmap"
    ELSE "ok"

\* rtapi_app_main(): fail is the HAL call that fails, err what it returns,
\* perm whether open() is permitted, mapped_ok whether mmap() succeeds
rtapi_app_main(fail, err, perm, mapped_ok) ==
    /\ phase = "unloaded"
    /\ IF fail \in BeforeMap
       THEN \* hal_exit(comp_id) on every path but hal_init's; return
            /\ phase' = "failed"
            /\ main_ret' = IF fail \in {"hal_init", "hal_malloc"} THEN -1 ELSE err
            /\ comp_live' = FALSE
            /\ UNCHANGED <<connVars, connected, update_count, error_count>>
       ELSE LET m == map_shared_memory(CurConn, file_exists /\ perm, mapped_ok)
                conn_bit == IF m.ret # 0 THEN 0 ELSE 1
            IN  /\ acq' = AcqOutcome(file_exists, perm, mapped_ok)
                /\ connected' = conn_bit
                /\ IF fail = "export"
                   THEN \* unmap_shared_memory(); hal_exit(comp_id); return retval
                        /\ SetConn(unmap_shared_memory(m.conn))
                        /\ phase' = "failed"
                        /\ main_ret' = err
                        /\ comp_live' = FALSE
                        /\ UNCHANGED <<update_count, error_count>>
                   ELSE /\ SetConn(m.conn)
                        /\ update_count' = U32Zero
                        /\ error_count' = U32Zero
                        /\ phase' = "ready"
                        /\ main_ret' = 0
                        /\ comp_live' = TRUE
    /\ UNCHANGED <<file_exists, shm, pin_in, pin_out, cycleVars, start,
                   peer_touched>>

\* rtapi_app_exit(): unmap_shared_memory(); hal_exit(comp_id).  HAL unloads
\* a component with its threads stopped: no invocation of update_pins is
\* under way when the exit runs, and none starts after it.
rtapi_app_exit ==
    /\ phase = "ready"
    /\ pc = "idle"
    /\ SetConn(unmap_shared_memory(CurConn))
    /\ comp_live' = FALSE
    /\ phase' = "exited"
    /\ UNCHANGED <<main_ret, acq, file_exists, shm, pin_in, pin_out, connected,
                   update_count, error_count, cycleVars, start, peer_touched>>

(* ------------------------------------------------------------------ *)
(* update_pins, one shared-memory access per step                     *)
(* ------------------------------------------------------------------ *)
Access(op, slot) == [op |-> op, slot |-> slot]

\* the byte offset of pin p's slot taken for its word index
pin_offset_bytes(p) == (2 + p) * WORD_BYTES

\* pin_offset = 2 + i
pin_offset(p) == 2 + p

\* update_pins that publishes its own pin count in slot 0 on entry
update_pins_enter_publishes_count ==
    /\ phase = "ready"
    /\ pc = "idle"
    /\ ncycles < MaxCycles
    /\ ncycles' = ncycles + 1
    /\ entry' = [update_count |-> update_count, error_count |-> error_count]
    /\ i' = 0
    /\ IF shm_ptr = "NULL"
       THEN /\ error_count' = Inc32(error_count)
            /\ pc' = "idle"
            /\ log' = <<>>
            /\ UNCHANGED shm
       ELSE /\ pc' = "inbound"
            /\ log' = <<Access("write", 0)>>
            /\ shm' = Store(shm, 0, I64(MAX_PINS))
            /\ UNCHANGED error_count
    /\ UNCHANGED <<lifeVars, connVars, file_exists, pin_in, pin_out,
                   connected, update_count>>
    /\ UNCHANGED peer_touched

\* update_pins_enter without the if (shm_ptr == NULL) test
update_pins_enter_unchecked ==
    /\ phase = "ready"
    /\ pc = "idle"
    /\ ncycles < MaxCycles
    /\ ncycles' = ncycles + 1
    /\ log' = <<>>
    /\ entry' = [update_count |-> update_count, error_count |-> error_count]
    /\ i' = 0
    /\ pc' = "inbound"
    /\ UNCHANGED <<lifeVars, connVars, file_exists, shm, pin_in, pin_out,
                   connected, update_count, error_count>>
    /\ UNCHANGED peer_touched

\* update_pins_enter retrying the acquisition when it finds shm_ptr NULL
update_pins_enter_retries ==
    /\ phase = "ready"
    /\ pc = "idle"
    /\ ncycles < MaxCycles
    /\ ncycles' = ncycles + 1
    /\ log' = <<>>
    /\ entry' = [update_count |-> update_count, error_count |-> error_count]
    /\ i' = 0
    /\ IF shm_ptr = "NULL"
       THEN /\ SetConn(map_shared_memory(CurConn, file_exists, TRUE).conn)
            /\ error_count' = Inc32(error_count)
            /\ pc' = "idle"
       ELSE /\ pc' = "inbound"
            /\ UNCHANGED <<shm_ptr, shm_fd, open_fds, sys, error_count>>
    /\ UNCHANGED <<lifeVars, acq, file_exists, shm, pin_in, pin_out,
                   connected, update_count>>
    /\ UNCHANGED peer_touched

\* update_pins_enter also skipping the cycle while the pin count is 0
update_pins_enter_wants_count ==
    /\ phase = "ready"
    /\ pc = "idle"
    /\ ncycles < MaxCycles
    /\ ncycles' = ncycles + 1
    /\ log' = <<>>
    /\ entry' = [update_count |-> update_count, error_count |-> error_count]
    /\ i' = 0
    /\ IF shm_ptr = "NULL" \/ Load(shm, 0) = I64(0)
       THEN /\ error_count' = Inc32(error_count)
            /\ pc' = "idle"
       ELSE /\ pc' = "inbound"
            /\ UNCHANGED error_count
    /\ UNCHANGED <<lifeVars, connVars, file_exists, shm, pin_in, pin_out,
                   connected, update_count>>
    /\ UNCHANGED peer_touched

\* the scheduler calls update_pins; if (shm_ptr == NULL) the call counts
\* an error and returns, otherwise the inbound loop starts at i = 0
update_pins_enter ==
    /\ phase = "ready"
    /\ pc = "idle"
    /\ ncycles < MaxCycles
    /\ ncycles' = ncycles + 1
    /\ log' = <<>>
    /\ entry' = [update_count |-> update_count, error_count |-> error_count]
    /\ i' = 0
    /\ IF shm_ptr = "NULL"
       THEN /\ error_count' = Inc32(error_count)
            /\ pc' = "idle"
       ELSE /\ pc' = "inbound"
            /\ UNCHANGED error_count
    /\ UNCHANGED <<lifeVars, connVars, file_exists, shm, pin_in, pin_out,
                   connected, update_count>>
    /\ UNCHANGED peer_touched

\* update_pins with one loop: each pin's slot is written, then read back
update_pins_inbound_fused ==
    /\ pc = "inbound"
    /\ shm' = Store(shm, pin_offset(i), FloatToWord(pin_in[i]))
    /\ pin_out' = [pin_out EXCEPT ![i] = pin_in[i]]
    /\ log' = log \o <<Access("write", pin_offset(i)), Access("read", pin_offset(i))>>
    /\ IF i + 1 < MAX_PINS
       THEN i' = i + 1 /\ pc' = "inbound"
       ELSE i' = i + 1 /\ pc' = "flag"
    /\ UNCHANGED <<lifeVars, connVars, file_exists, pin_in, connected,
                   update_count, error_count, entry, ncycles>>
    /\ peer_touched' = peer_touched \ {pin_offset(i)}

\* the first loop held back until the peer has consumed the previous cycle:
\* it starts only once slot 1 is 0
update_pins_inbound_waits ==
    /\ pc = "inbound"
    /\ i = 0 => Load(shm, 1) = I64(0)
    /\ shm' = Store(shm, pin_offset(i), FloatToWord(pin_in[i]))
    /\ log' = Append(log, Access("write", pin_offset(i)))
    /\ IF i + 1 < MAX_PINS
       THEN i' = i + 1 /\ pc' = "inbound"
       ELSE i' = 0 /\ pc' = "outbound"
    /\ UNCHANGED <<lifeVars, connVars, file_exists, pin_in, pin_out, connected,
                   update_count, error_count, entry, ncycles>>
    /\ peer_touched' = peer_touched \ {pin_offset(i)}

\* one iteration of the first loop: shm_ptr[2 + i] = bits of *(pin_in[i])
update_pins_inbound ==
    /\ pc = "inbound"
    /\ shm' = Store(shm, pin_offset(i), FloatToWord(pin_in[i]))
    /\ log' = Append(log, Access("write", pin_offset(i)))
    /\ IF i + 1 < MAX_PINS
       THEN i' = i + 1 /\ pc' = "inbound"
       ELSE i' = 0 /\ pc' = "outbound"
    /\ UNCHANGED <<lifeVars, connVars, file_exists, pin_in, pin_out, connected,
                   update_count, error_count, entry, ncycles>>
    /\ peer_touched' = peer_touched \ {pin_offset(i)}

\* the second loop returning from update_pins at the first slot that holds 0
update_pins_outbound_stops ==
    /\ pc = "outbound"
    /\ log' = Append(log, Access("read", pin_offset(i)))
    /\ IF Load(shm, pin_offset(i)) = I64(0)
       THEN pc' = "idle" /\ UNCHANGED <<pin_out, i>>
       ELSE /\ pin_out' = [pin_out EXCEPT ![i] = WordToFloat(Load(shm, pin_offset(i)))]
            /\ i' = i + 1
            /\ pc' = IF i + 1 < MAX_PINS THEN "outbound" ELSE "flag"
    /\ UNCHANGED <<lifeVars, connVars, file_exists, shm, pin_in, connected,
                   update_count, error_count, entry, ncycles>>
    /\ UNCHANGED peer_touched

\* the second loop reading the peer's words from a bank of their own, the
\* 16 slots after the inbound ones
update_pins_outbound_own_bank ==
    /\ pc = "outbound"
    /\ pin_out' = [pin_out EXCEPT
                      ![i] = WordToFloat(Load(shm, pin_offset(i) + MAX_PINS))]
    /\ log' = Append(log, Access("read", pin_offset(i) + MAX_PINS))
    /\ IF i + 1 < MAX_PINS
       THEN i' = i + 1 /\ pc' = "outbound"
       ELSE i' = i + 1 /\ pc' = "flag"
    /\ UNCHANGED <<lifeVars, connVars, file_exists, shm, pin_in, connected,
                   update_count, error_count, entry, ncycles>>
    /\ UNCHANGED peer_touched

\* one iteration of the second loop: *(pin_out[i]) = shm_ptr[2 + i] as a double
update_pins_outbound ==
    /\ pc = "outbound"
    /\ pin_out' = [pin_out EXCEPT ![i] = WordToFloat(Load(shm, pin_offset(i)))]
    /\ log' = Append(log, Access("read", pin_offset(i)))
    /\ IF i + 1 < MAX_PINS
       THEN i' = i + 1 /\ pc' = "outbound"
       ELSE i' = i + 1 /\ pc' = "flag"
    /\ UNCHANGED <<lifeVars, connVars, file_exists, shm, pin_in, connected,
                   update_count, error_count, entry, ncycles>>
    /\ UNCHANGED peer_touched

\* update_pins storing the notification to word 0 instead of word 1
update_pins_flag_word0 ==
    /\ pc = "flag"
    /\ shm' = Store(shm, 0, I64(1))
    /\ log' = Append(log, Access("write", 0))
    /\ pc' = "count"
    /\ UNCHANGED <<lifeVars, connVars, file_exists, pin_in, pin_out, connected,
                   update_count, error_count, i, entry, ncycles>>
    /\ UNCHANGED peer_touched

\* update_pins waiting for the peer to clear the flag before setting it
update_pins_flag_waits ==
    /\ pc = "flag"
    /\ Load(shm, 1) = I64(0)
    /\ shm' = Store(shm, 1, I64(1))
    /\ log' = Append(log, Access("write", 1))
    /\ pc' = "count"
    /\ UNCHANGED <<lifeVars, connVars, file_exists, pin_in, pin_out, connected,
                   update_count, error_count, i, entry, ncycles>>
    /\ UNCHANGED peer_touched

\* update_pins raising the flag in its first full pass only
update_pins_flag_once ==
    /\ pc = "flag"
    /\ IF update_count = U32Zero
       THEN /\ shm' = Store(shm, 1, I64(1))
            /\ log' = Append(log, Access("write", 1))
       ELSE UNCHANGED <<shm, log>>
    /\ pc' = "count"
    /\ UNCHANGED <<lifeVars, connVars, file_exists, pin_in, pin_out, connected,
                   update_count, error_count, i, entry, ncycles>>
    /\ UNCHANGED peer_touched

\* shm_ptr[1] = 1
update_pins_flag ==
    /\ pc = "flag"
    /\ shm' = Store(shm, 1, I64(1))
    /\ log' = Append(log, Access("write", 1))
    /\ pc' = "count"
    /\ UNCHANGED <<lifeVars, connVars, file_exists, pin_in, pin_out, connected,
                   update_count, error_count, i, entry, ncycles>>
    /\ UNCHANGED peer_touched

\* update_pins ending with a liveness test of the peer: a cycle that finds
\* the pin-count slot empty releases the region
update_pins_count_drops ==
    /\ pc = "count"
    /\ update_count' = Inc32(update_count)
    /\ pc' = "idle"
    /\ IF Load(shm, 0) = I64(0)
       THEN /\ SetConn(unmap_shared_memory(CurConn))
            /\ connected' = 0
            /\ UNCHANGED acq
       ELSE UNCHANGED <<connVars, connected>>
    /\ UNCHANGED <<lifeVars, file_exists, shm, pin_in, pin_out,
                   error_count, i, log, entry, ncycles>>
    /\ peer_touched' = {}

\* *(data->update_count) += 1; return
update_pins_count ==
    /\ pc = "count"
    /\ update_count' = Inc32(update_count)
    /\ pc' = "idle"
    /\ UNCHANGED <<lifeVars, connVars, file_exists, shm, pin_in, pin_out,
                   connected, error_count, i, log, entry, ncycles>>
    /\ peer_touched' = {}

\* a step of update_pins after its entry
update_pins_step ==
    \/ update_pins_inbound
    \/ update_pins_outbound
    \/ update_pins_flag
    \/ update_pins_count

(* ------------------------------------------------------------------ *)
(* Environment: HAL and the peer                                      *)
(* ------------------------------------------------------------------ *)
\* between two servo periods HAL drives inbound endpoint p to f
HalWritePin(p, f) ==
    /\ phase = "ready"
    /\ pc = "idle"
    /\ pin_in[p] # f
    /\ pin_in' = [pin_in EXCEPT ![p] = f]
    /\ UNCHANGED <<lifeVars, connVars, file_exists, shm, pin_out, connected,
                   update_count, error_count, cycleVars>>
    /\ UNCHANGED peer_touched

\* the microkernel creates /tmp/hal_pins.shm, all words 0
PeerCreateRegion ==
    /\ ~file_exists
    /\ file_exists' = TRUE
    /\ UNCHANGED <<lifeVars, connVars, shm, pin_in, pin_out, connected,
                   update_count, error_count, cycleVars>>
    /\ UNCHANGED peer_touched

\* the bridge has written slot s in the invocation under way and has not
\* yet read it back
InWindow(s) ==
    /\ pc \in {"inbound", "outbound"}
    /\ \E k \in 1 .. Len(log) : log[k] = Access("write", s)
    /\ \A k \in 1 .. Len(log) : log[k] # Access("read", s)

\* the microkernel stores word w to slot s, at any moment
PeerStore(s, w) ==
    /\ file_exists
    /\ s \in Slots
    /\ Load(shm, s) # w
    /\ shm' = Store(shm, s, w)
    /\ UNCHANGED <<lifeVars, connVars, file_exists, pin_in, pin_out, connected,
                   update_count, error_count, cycleVars>>

\* a store of the peer, not recorded
PeerWrite(s, w) ==
    /\ PeerStore(s, w)
    /\ UNCHANGED peer_touched

\* a store of the peer, recorded when it falls between the bridge's store to
\* the slot and the bridge's load from it
PeerWriteRecorded(s, w) ==
    /\ PeerStore(s, w)
    /\ peer_touched' = IF InWindow(s) THEN peer_touched \cup {s} ELSE peer_touched

Next ==
    \/ \E fail \in FailPoints, err \in HalErrs, perm \in BOOLEAN, mapped_ok \in BOOLEAN :
          rtapi_app_main(fail, err, perm, mapped_ok)
    \/ update_pins_enter
    \/ update_pins_step
    \/ rtapi_app_exit
    \/ \E p \in ActivePins : \E f \in PinFloats(p) : HalWritePin(p, f)
    \/ PeerCreateRegion
    \/ \E s \in PeerSlots : \E w \in PeerWords(s) : PeerWrite(s, w)

Spec == Init /\ [][Next]_vars

\* the realtime thread keeps executing an invocation it has started
FairSpec == Spec /\ WF_vars(update_pins_step)

\* the same program and environment with the peer's stores recorded
RecordedNext ==
    \/ \E fail \in FailPoints, err \in HalErrs, perm \in BOOLEAN, mapped_ok \in BOOLEAN :
          rtapi_app_main(fail, err, perm, mapped_ok)
    \/ update_pins_enter
    \/ update_pins_step
    \/ rtapi_app_exit
    \/ \E p \in ActivePins : \E f \in PinFloats(p) : HalWritePin(p, f)
    \/ PeerCreateRegion
    \/ \E s \in PeerSlots : \E w \in PeerWords(s) : PeerWriteRecorded(s, w)

LoopbackSpec == Init /\ [][RecordedNext]_vars

(* ------------------------------------------------------------------ *)
(* Vocabulary of the properties                                       *)
(* ------------------------------------------------------------------ *)
\* b is a + 1 modulo 2^32, limb by limb
Succ32(a, b) ==
    /\ b[2] = (a[2] + 1) % Limb
    /\ b[1] = (a[1] + (IF a[2] + 1 = Limb THEN 1 ELSE 0)) % Limb

\* the value of a small counter
Val32(c) == c[1] * Limb + c[2]

\* the width-bit binary numeral of n, most significant bit first
Bits(n, width) == [k \in 1 .. width |-> (n \div (2 ^ (width - k))) % 2]

\* the 64 bits of a double: sign, exponent, fraction (IEEE 754 binary64)
BitsOfFloat(f) ==
    <<f.sign>> \o Bits(f.exp, 11) \o Bits(f.frac[1], 4) \o Bits(f.frac[2], 16)
        \o Bits(f.frac[3], 16) \o Bits(f.frac[4], 16)

\* the 64 bits of a word
BitsOfWord(w) ==
    Bits(w[1], 16) \o Bits(w[2], 16) \o Bits(w[3], 16) \o Bits(w[4], 16)

\* the scheduler invokes update_pins in this step
Invoked == ncycles' = ncycles + 1

\* an invocation of update_pins returns in this step
Returns == pc' = "idle" /\ (Invoked \/ pc # "idle")

\* the bridge accesses shared memory in this step, and how
Accesses(op, slot) == log' = Append(log, Access(op, slot))

\* a step of the peer: nothing of the bridge process changes
PeerStep ==
    UNCHANGED <<lifeVars, connVars, pin_in, pin_out, connected, update_count,
                error_count, cycleVars>>

PinSlots == {pin_offset(p) : p \in Pins}

LogSlots(op) == {log[k].slot : k \in {n \in 1 .. Len(log) : log[n].op = op}}

\* the accesses of a full pass, in order
FullLog ==
    [k \in 1 .. (2 * MAX_PINS + 1) |->
        IF k <= MAX_PINS THEN Access("write", 2 + (k - 1))
        ELSE IF k <= 2 * MAX_PINS THEN Access("read", 2 + (k - MAX_PINS - 1))
        ELSE Access("write", 1)]

(* ------------------------------------------------------------------ *)
(* Properties                                                         *)
(* ------------------------------------------------------------------ *)

(* ------------------------------------------------------------------ *)
(* The counters near 2^32                                             *)
(* ------------------------------------------------------------------ *)
\* a + b modulo 2^32
Add32(a, b) ==
    <<(a[1] + b[1] + ((a[2] + b[2]) \div Limb)) % Limb, (a[2] + b[2]) % Limb>>

\* numbers of invocations after which a counter is about to carry into its
\* high half or to wrap: 2^16 - 1, 2^32 - 2, 2^32 - 1
WrapStarts == {<<0, Limb - 1>>, <<Limb - 1, Limb - 2>>, <<Limb - 1, Limb - 1>>}

\* c - 1 for c # 0
Pred32(c) == IF c[2] = 0 THEN <<c[1] - 1, Limb - 1>> ELSE <<c[1], c[2] - 1>>

\* the ready component after n invocations, all of them full passes (the
\* acquisition succeeded, was_connected) or all of them skipped (it failed
\* for want of the region file), with HAL and the peer idle so far
ReadyAfter(n, was_connected) ==
    LET m == map_shared_memory(Conn0, was_connected, TRUE)
    IN  /\ phase = "ready"
        /\ main_ret = 0
        /\ comp_live = TRUE
        /\ shm_ptr = m.conn.shm_ptr
        /\ shm_fd = m.conn.shm_fd
        /\ open_fds = m.conn.open_fds
        /\ sys = m.conn.sys
        /\ acq = AcqOutcome(was_connected, TRUE, TRUE)
        /\ file_exists = was_connected
        /\ shm = IF was_connected
                 THEN Store([s \in {} |-> I64(0)], 1, I64(1))
                 ELSE [s \in {} |-> I64(0)]
        /\ pin_in = [p \in Pins |-> PosZero]
        /\ pin_out = [p \in Pins |-> PosZero]
        /\ connected = IF m.ret # 0 THEN 0 ELSE 1
        /\ update_count = IF was_connected THEN n ELSE U32Zero
        /\ error_count = IF was_connected THEN U32Zero ELSE n
        /\ pc = "idle"
        /\ i = IF was_connected THEN MAX_PINS ELSE 0
        /\ log = IF was_connected THEN FullLog ELSE <<>>
        /\ entry = IF was_connected
                   THEN [update_count |-> Pred32(n), error_count |-> U32Zero]
                   ELSE [update_count |-> U32Zero, error_count |-> Pred32(n)]
        /\ ncycles = 0
        /\ start = n
        /\ peer_touched = {}

WrapInit ==
    \/ \E n \in WrapStarts : ReadyAfter(n, FALSE)
    \/ ReadyAfter(<<Limb - 1, Limb - 1>>, TRUE)

\* the component from its load, or from a ready state late in its life
CounterSpec == (Init \/ WrapInit) /\ [][Next]_vars

\* C1: an invocation of update_pins made while shm_ptr is NULL returns at
\* once: it accesses no slot, leaves the region, every pin_out and
\* update_count as they were, and adds exactly 1 to error_count.
C1_DisconnectedShortCircuit ==
    [][(Invoked /\ shm_ptr = "NULL") =>
          /\ pc' = "idle"
          /\ log' = <<>>
          /\ shm' = shm
          /\ pin_out' = pin_out
          /\ update_count' = update_count
          /\ Succ32(error_count, error_count')]_vars

\* a skipped cycle has run while the peer's region exists and holds data
C1_Witness ==
    /\ phase = "ready"
    /\ shm_ptr = "NULL"
    /\ ncycles = 1
    /\ error_count = <<0, 1>>
    /\ file_exists
    /\ Load(shm, pin_offset(0)) = FloatToWord(MinSubnormal)

\* C2: within one invocation the inbound writes of all 16 slots 2..17 are
\* done before the first outbound read: no read precedes a write of a pin
\* slot, and once a read has happened every pin slot has been written.
C2_InboundBeforeOutbound ==
    /\ \A a, b \in 1 .. Len(log) :
          (a < b /\ log[a].op = "read") =>
              ~(log[b].op = "write" /\ log[b].slot \in PinSlots)
    /\ LogSlots("read") # {} => PinSlots \subseteq LogSlots("write")

\* the outbound pass is under way after a complete inbound pass
C2_Witness ==
    /\ pc = "outbound"
    /\ i = 3
    /\ Len(log) = MAX_PINS + 3

\* C3: in a connected cycle the store of 1 to slot 1 is the last
\* shared-memory access, after the 16 writes and 16 reads and while
\* update_count still has its value of entry; a cycle that increments
\* update_count has made it; and no step of the bridge stores anything but
\* 1 to slot 1, or changes slot 1 otherwise.
C3_FlagSetLast ==
    [][/\ Accesses("write", 1) =>
            /\ log' = FullLog
            /\ Load(shm', 1) = I64(1)
            /\ update_count' = update_count
            /\ update_count = entry.update_count
       /\ (phase = "ready" /\ update_count' # update_count) =>
            /\ log = FullLog
            /\ Returns
            /\ Succ32(entry.update_count, update_count')
       /\ (~PeerStep /\ ~Accesses("write", 1)) => Load(shm', 1) = Load(shm, 1)
      ]_vars

\* a connected cycle has completed and left the flag at 1
C3_Witness ==
    /\ pc = "idle"
    /\ update_count = <<0, 1>>
    /\ log = FullLog
    /\ Load(shm, 1) = I64(1)

\* C4: the word stored to slot 2+p has exactly the 64 bits of pin_in[p],
\* and the double stored to pin_out[p] has exactly the 64 bits of the word
\* read from slot 2+p.
C4_BitPreservation ==
    [][Len(log') = Len(log) + 1 =>
          LET a == log'[Len(log')]
              p == a.slot - 2
          IN  /\ (a.op = "write" /\ p \in Pins) =>
                    BitsOfWord(Load(shm', a.slot)) = BitsOfFloat(pin_in[p])
              /\ a.op = "read" =>
                    /\ p \in Pins
                    /\ BitsOfFloat(pin_out'[p]) = BitsOfWord(Load(shm, a.slot))
      ]_vars

\* a NaN with sign and payload went in through one pin and came back out,
\* a subnormal of the peer came out through another
C4_Witness ==
    /\ pc = "idle"
    /\ pin_in[MAX_PINS - 1] = NegNaN
    /\ pin_out[MAX_PINS - 1] = NegNaN
    /\ pin_out[0] = MinSubnormal

\* C5: the slots the bridge writes in its inbound pass and the slots it
\* reads in its outbound pass, which are the slots the peer writes, are
\* disjoint: no pin slot is written by both the bridge and the peer.
C5_SingleWriterPerDirection ==
    (LogSlots("write") \cap PinSlots) \cap LogSlots("read") = {}

\* C6: no step of a started invocation depends on what a slot holds: the
\* next step is enabled whatever the peer does, and with the realtime
\* thread running every started invocation returns.
C6_NeverWaitsOnPeer ==
    /\ [](pc # "idle" => ENABLED update_pins_step)
    /\ []<>(pc = "idle")

\* the second cycle is about to set the flag the peer never cleared, while
\* the peer's words sit in the pin-count and pin slots
C6_Witness ==
    /\ pc = "flag"
    /\ ncycles = 2
    /\ Load(shm, 1) = I64(1)
    /\ Load(shm, 0) = I64(MAX_PINS)
    /\ Load(shm, pin_offset(0)) = FloatToWord(MinSubnormal)

\* C7: an invocation that returns has either skipped (no access, only
\* error_count changed, by 1) or made the full pass: the 16 writes of slots
\* 2..17, the 16 reads into pin_out[0..15], the flag, update_count + 1 and
\* error_count unchanged.  Between invocations nothing partial is left.
C7_AllOrNothing ==
    /\ [](pc = "idle" => log \in {<<>>, FullLog})
    /\ [][Returns =>
            \/ /\ log' = <<>>
               /\ Succ32(entry'.error_count, error_count')
               /\ update_count' = entry'.update_count
               /\ UNCHANGED <<shm, pin_out, connected, connVars>>
            \/ /\ log' = FullLog
               /\ Succ32(entry'.update_count, update_count')
               /\ error_count' = entry'.error_count
         ]_vars

\* a full pass and then a second one have returned
C7_Witness ==
    /\ pc = "idle"
    /\ ncycles = 2
    /\ log = FullLog
    /\ update_count = <<0, 2>>
    /\ error_count = U32Zero

\* the component is loaded or was unloaded after having been ready
Started == phase \in {"ready", "exited"}

\* C8: when the one acquisition of startup has failed and the component is
\* ready, connected is 0 and stays 0, map_shared_memory is not called
\* again, and every update cycle, also one made after the peer has created
\* the region, accesses no slot and adds 1 to error_count.
C8_NoReconnection ==
    /\ []((Started /\ acq # "ok") =>
            /\ connected = 0
            /\ shm_ptr = "NULL"
            /\ shm_fd = -1
            /\ sys.open = 1
            /\ sys.mmap <= 1
            /\ pc = "idle"
            /\ log = <<>>
            /\ update_count = U32Zero
            /\ Val32(error_count) = ncycles)
    /\ [][(phase = "ready" /\ acq # "ok" /\ Invoked) =>
            /\ Succ32(error_count, error_count')
            /\ UNCHANGED <<shm, pin_out, connVars, connected, update_count>>
         ]_vars

\* the region was absent at startup, the peer has since created it and
\* published the pin count, and two cycles have been skipped
C8_Witness ==
    /\ phase = "ready"
    /\ acq = "enoent"
    /\ file_exists
    /\ Load(shm, 0) = I64(MAX_PINS)
    /\ error_count = <<0, 2>>

\* C9: when the acquisition of startup has succeeded, the region stays
\* mapped and connected stays 1 while the component is ready, every update
\* cycle is a full one, and error_count stays 0, also after the exit.
C9_ConnectedNeverReverts ==
    /\ (phase = "ready" /\ acq = "ok") =>
          /\ shm_ptr = "MAPPED"
          /\ shm_fd >= 0
          /\ connected = 1
          /\ pc = "idle" => (log = <<>> <=> ncycles = 0)
          /\ Val32(update_count) = (IF pc = "idle" THEN ncycles ELSE ncycles - 1)
    /\ (Started /\ acq = "ok") => error_count = U32Zero

\* connected cycles have run although the peer never published a pin count
C9_Witness ==
    /\ phase = "ready"
    /\ acq = "ok"
    /\ Load(shm, 0) = I64(0)
    /\ update_count = <<0, 2>>
    /\ pc = "idle"

\* C10: after startup a successful acquisition has left a live handle
\* (shm_ptr mapped, shm_fd an open descriptor) and connected = 1; a failed
\* one, at open() or at mmap(), has left shm_ptr NULL, shm_fd = -1, no open
\* descriptor and connected = 0.  So while update cycles run, connected is
\* 1 exactly when shm_ptr is not NULL.
C10_AcquisitionOutcome ==
    phase = "ready" =>
        /\ acq = "ok" =>
              /\ shm_ptr = "MAPPED"
              /\ shm_fd >= 0
              /\ open_fds = {shm_fd}
              /\ connected = 1
        /\ acq # "ok" =>
              /\ shm_ptr = "NULL"
              /\ shm_fd = -1
              /\ open_fds = {}
              /\ connected = 0
        /\ acq = "mmap" => (sys.open = 1 /\ sys.mmap = 1 /\ sys.close = 1)
        /\ acq \in {"enoent", "eacces"} => (sys.open = 1 /\ sys.mmap = 0)
        /\ connected = 1 <=> shm_ptr # "NULL"

\* mmap() failed after a successful open() and a cycle has run since
C10_Witness ==
    /\ phase = "ready"
    /\ acq = "mmap"
    /\ ncycles = 1
    /\ open_fds = {}

\* C11: from any connection state the program reaches, one call of
\* unmap_shared_memory leaves shm_ptr NULL, shm_fd = -1 and no descriptor
\* open; a second call changes nothing and makes no munmap() and no
\* close(); a call made while nothing is mapped changes nothing either.
C11_IdempotentRelease ==
    LET once  == unmap_shared_memory(CurConn)
        twice == unmap_shared_memory(once)
    IN  /\ once.shm_ptr = "NULL"
        /\ once.shm_fd = -1
        /\ once.open_fds = {}
        /\ twice = once
        /\ twice.sys.munmap = once.sys.munmap
        /\ twice.sys.close = once.sys.close
        /\ (shm_ptr = "NULL" /\ shm_fd = -1) => once = CurConn
        /\ phase = "exited" => (shm_ptr = "NULL" /\ shm_fd = -1 /\ open_fds = {})

\* rtapi_app_exit has released a mapped region with one munmap() and one
\* close()
C11_Witness ==
    /\ phase = "exited"
    /\ acq = "ok"
    /\ sys.munmap = 1
    /\ sys.close = 1
    /\ shm_ptr = "NULL"
    /\ shm_fd = -1

\* the number of invocations so far, modulo 2^32
Invocations == Add32(start, <<0, ncycles>>)

\* C12: rtapi_app_main leaves both counters 0 when the component becomes
\* ready; every invocation that returns has added exactly 1 modulo 2^32 to
\* one counter and left the other unchanged, and the counters change at no
\* other step; between invocations update_count + error_count is the number
\* of invocations modulo 2^32; a counter that wraps from 2^32 - 1 to 0 does
\* so in an otherwise ordinary cycle, with connected and the other counter
\* unchanged.
C12_Counters ==
    /\ [](phase = "ready" /\ pc = "idle" =>
             Add32(update_count, error_count) = Invocations)
    /\ [][/\ (phase = "unloaded" /\ phase' = "ready") =>
                (update_count' = U32Zero /\ error_count' = U32Zero)
          /\ Returns =>
                /\ \/ /\ Succ32(update_count, update_count')
                      /\ error_count' = error_count
                      /\ log' = FullLog
                   \/ /\ Succ32(error_count, error_count')
                      /\ update_count' = update_count
                      /\ log' = <<>>
                /\ UNCHANGED <<connected, shm_ptr, shm_fd, phase>>
          /\ (phase = "ready" /\ ~Returns) =>
                UNCHANGED <<update_count, error_count>>
         ]_vars

\* update_count has wrapped from 2^32 - 1 to 0 in a full pass
C12_Witness ==
    /\ start = <<Limb - 1, Limb - 1>>
    /\ ncycles = 1
    /\ pc = "idle"
    /\ update_count = U32Zero
    /\ error_count = U32Zero
    /\ log = FullLog
    /\ connected = 1

\* C13: no step of update_pins, from its entry to its return and whether the
\* region is mapped or not, changes shm_ptr, shm_fd or the connected pin.
C13_ConnectionFrame ==
    [][(Invoked \/ pc # "idle") => UNCHANGED <<shm_ptr, shm_fd, connected>>]_vars

\* every invocation allowed was made on a mapped region whose pin-count
\* slot the peer never filled, and the connection stands as it was
C13_Witness ==
    /\ pc = "idle"
    /\ ncycles = MaxCycles
    /\ log = FullLog
    /\ connected = 1
    /\ shm_ptr # "NULL"
    /\ Load(shm, 0) = I64(0)

\* C14: every access the bridge makes is to a word of the 512-word region;
\* the inbound pass stores pin i's word in slot 2 + i and the outbound pass
\* loads pin i's word from slot 2 + i, for pins 0..15, in every cycle.
C14_AddressStability ==
    /\ [](\A k \in 1 .. Len(log) : log[k].slot \in Slots)
    /\ [][/\ (pc = "inbound" /\ ~PeerStep) =>
                /\ i \in Pins
                /\ Accesses("write", 2 + i)
                /\ shm' = Store(shm, 2 + i, FloatToWord(pin_in[i]))
          /\ (pc = "outbound" /\ ~PeerStep) =>
                /\ i \in Pins
                /\ Accesses("read", 2 + i)
                /\ pin_out' = [pin_out EXCEPT ![i] = WordToFloat(Load(shm, 2 + i))]
         ]_vars

\* the last pin's slot, the highest the bridge touches, is about to be read
\* in the second cycle after being written in both
C14_Witness ==
    /\ pc = "outbound"
    /\ i = MAX_PINS - 1
    /\ ncycles = 2
    /\ log[MAX_PINS] = Access("write", MAX_PINS + 1)
    /\ Load(shm, MAX_PINS + 1) = FloatToWord(NegNaN)

\* C15: when rtapi_app_main has failed, at whichever HAL call, it has
\* returned a non-zero value, the component was never made ready and never
\* becomes ready, no update cycle runs, and no handle on the shared region
\* is held: shm_ptr is NULL, shm_fd is -1 and no descriptor is open.
C15_SetupFailuresFatal ==
    /\ [](phase = "failed" =>
             /\ main_ret # 0
             /\ ~comp_live
             /\ ncycles = 0 /\ pc = "idle"
             /\ shm_ptr = "NULL"
             /\ shm_fd = -1
             /\ open_fds = {})
    /\ [](phase = "ready" => main_ret = 0)
    /\ [][phase = "failed" => phase' = "failed"]_vars

\* the export of the update function failed after the region had been
\* opened and mapped: the mapping was released before the return
C15_Witness ==
    /\ phase = "failed"
    /\ acq = "ok"
    /\ sys["munmap"] = 1
    /\ sys["close"] = 1
    /\ main_ret = -22
    /\ connected = 1

\* the slots the bridge stores to: the flag and the 16 pin slots
BridgeSlots == {1} \cup {2 + p : p \in Pins}

\* C16: no operation of the bridge (rtapi_app_main, update_pins,
\* rtapi_app_exit) changes slot 0 or any of slots 18..511, the stores of
\* update_pins go to slot 1 and slots 2..17 only, startup and shutdown touch
\* no slot at all, and no access of the bridge is a read of slot 0.  (A word
\* outside DOMAIN shm and DOMAIN shm' is zero before and after the step.)
C16_BridgeWriteSet ==
    /\ [](\A k \in 1 .. Len(log) :
             /\ log[k].slot # 0
             /\ log[k].op = "write" => log[k].slot \in BridgeSlots)
    /\ [][/\ ~PeerStep =>
                \A s \in ((DOMAIN shm) \cup (DOMAIN shm')) \ BridgeSlots :
                    Load(shm', s) = Load(shm, s)
          /\ phase' # phase => UNCHANGED <<shm, log>>
         ]_vars

\* the peer's pin count stands in slot 0 after startup, two full cycles
\* and the shutdown, next to the flag and a pin word the bridge stored
C16_Witness ==
    /\ phase = "exited"
    /\ ncycles = 2
    /\ log = FullLog
    /\ Load(shm, 0) = I64(MAX_PINS)
    /\ Load(shm, 1) = I64(1)
    /\ Load(shm, MAX_PINS + 1) = FloatToWord(NegNaN)
    /\ DOMAIN shm = {0, 1, MAX_PINS + 1}

\* C17: with the realtime thread running, every update cycle started on a
\* mapped region stores 1 to slot 1 before it ends, whatever the flag held
\* and whatever the peer stored meanwhile, so that a 0 of the peer is
\* replaced by 1 no later than the end of the next cycle started after it:
\* a cycle leaves its part before the flag store only by that store, which
\* leaves 1 in slot 1, and it never stays in that part for ever.
C17_FlagLiveness ==
    /\ [][(pc \in {"inbound", "outbound", "flag"} /\ pc' \in {"count", "idle"}) =>
             (pc' = "count" /\ Load(shm', 1) = I64(1))]_vars
    /\ []<>(pc \in {"count", "idle"})

\* the peer cleared the flag after the first cycle had set it; the second
\* cycle is about to set it again
C17_Witness ==
    /\ pc = "flag"
    /\ ncycles = 2
    /\ update_count = <<0, 1>>
    /\ Load(shm, 1) = I64(0)
    /\ shm_ptr # "NULL"

\* the pins whose slot the outbound pass of the cycle under way has read
ReadBack == IF pc = "outbound" THEN {p \in Pins : p < i}
            ELSE IF pc \in {"flag", "count"} THEN Pins
            ELSE {}

C19_FlagGuardsNothing ==
    /\ [](\A k \in 1 .. Len(log) : log[k] # Access("read", 1))
    /\ [](pc = "inbound" => ENABLED update_pins_inbound)
    /\ [][(pc = "inbound" /\ ~PeerStep) =>
             (Load(shm', 1) = Load(shm, 1) /\ Len(log') = Len(log) + 1)]_vars

\* the second cycle has stored pin 0's new word and not yet the last pin's:
\* under the flag the first cycle set, which the peer never cleared, slot 2
\* holds this cycle's input and slot 17 the previous cycle's
C19_Witness ==
    /\ pc = "inbound"
    /\ ncycles = 2
    /\ i \in 1 .. (MAX_PINS - 1)
    /\ Load(shm, 1) = I64(1)
    /\ pin_in[0] = MinSubnormal
    /\ Load(shm, 2) = FloatToWord(MinSubnormal)
    /\ pin_out[0] = PosZero
    /\ pin_in[MAX_PINS - 1] = PosZero
    /\ Load(shm, MAX_PINS + 1) = FloatToWord(NegNaN)
    /\ pin_out[MAX_PINS - 1] = NegNaN
    /\ Load(shm, 0) = I64(0)

====
